---------------------------- MODULE Spec2Model ----------------------------
(***************************************************************************)
(* Inventory borrowing tracker: the borrow / return lifecycle of           *)
(* borrowController (borrowItem, returnItem) and the usage report of       *)
(* itemController, over the Prisma store of User, Item and Borrow rows.    *)
(*                                                                         *)
(* Dates.  A JavaScript Date is an instant; it is modelled as the number   *)
(* of hours since 2024-01-01T00:00:00.000Z.  A date string of a request    *)
(* body is a record [kind, day, hour, text]:                               *)
(*   kind "absent"   the field is undefined or null                        *)
(*   kind "text"     the string `text', which is not a date                *)
(*   kind "date"     "2024-01-DD"                (UTC midnight of the day) *)
(*   kind "datetime" "2024-01-DDTHH:00:00.000Z"  (that instant)            *)
(*   kind "number"   the JSON number `hour'                                *)
(* The server's time zone is one without daylight saving, so that          *)
(* setDate(getDate() + n) moves an instant by n * 24 hours.                *)
(*                                                                         *)
(* State.  users, items and borrows are the tables of the store, res is    *)
(* the last response sent, calls holds the requests whose handler is       *)
(* between two of its store calls (empty where each request is served      *)
(* whole).                                                                 *)
(***************************************************************************)
EXTENDS Integers, Sequences, FiniteSets, TLC

VARIABLES users, items, borrows, res, calls

vars == <<users, items, borrows, res, calls>>

(***************************************************************************)
(* Bounds of the model.                                                    *)
(***************************************************************************)
MaxBorrows == 2        \* Borrow rows created in a run of Spec
MaxLateBorrows == 1    \* Borrow rows created in a run of SpecLate
MaxReportBorrows == 2  \* Borrow rows created in a run of SpecReport
MaxAnalysisBorrows == 3  \* Borrow rows created in a run of SpecAnalysis
MaxRaceBorrows == 2    \* Borrow rows created in a run of SpecRace, SpecReturnRace
MaxCalls == 2          \* requests served at the same time
MaxItems == 2          \* Item rows of the store in a run of SpecMaintenance, SpecAuth
MaxMaintBorrows == 2   \* Borrow rows created in a run of SpecMaintenance
MaxAuthBorrows == 1    \* Borrow rows created in a run of SpecAuth

(***************************************************************************)
(* Program constants.                                                      *)
(***************************************************************************)
DEFAULT_BORROW_PERIOD == 7

NaN == -1      \* Date.parse of an unreadable string; getTime of Invalid Date
NULL == -2     \* returnDate: null of a Borrow row

ItemStatus == {"AVAILABLE", "BORROWED", "DAMAGED", "LOST"}
BorrowStatus == {"ONGOING", "RETURNED", "LATE"}

(***************************************************************************)
(* Values of a request body and the conversions of the Date class.         *)
(***************************************************************************)
Absent == [kind |-> "absent", day |-> 0, hour |-> 0, text |-> ""]
Str(s) == [kind |-> "text", day |-> 0, hour |-> 0, text |-> s]
Garbage == Str("not-a-date")
DateOnly(d) == [kind |-> "date", day |-> d, hour |-> 0, text |-> ""]
DateTime(d, h) == [kind |-> "datetime", day |-> d, hour |-> h, text |-> ""]
Num(n) == [kind |-> "number", day |-> 0, hour |-> n, text |-> ""]

\* !x of a request field: undefined, null and "" are falsy
Falsy(s) == s.kind = "absent" \/ (s.kind = "text" /\ s.text = "")

\* typeof x === 'string'
IsString(s) == s.kind \in {"text", "date", "datetime"}

\* Date.parse(s), and new Date(s).getTime(): January 2024 has days 01..31
DateParse(s) ==
    IF s.kind \in {"date", "datetime"} /\ s.day \in 1..31 /\ s.hour \in 0..23
    THEN (s.day - 1) * 24 + s.hour
    ELSE NaN

\* 1970-01-01T00:00:00.000Z, the instant of new Date(0)
UnixEpoch == 0 - 473352

\* new Date(v): a string is parsed, a number counts milliseconds from the
\* Unix epoch
NewDate(v) ==
    IF v.kind = "number"
    THEN UnixEpoch + (v.hour \div 3600000)
    ELSE DateParse(v)

\* Date.prototype.toISOString of a valid instant
toISOString(t) == DateTime((t \div 24) + 1, t % 24)

\* a > b on two Dates: false as soon as one of them is Invalid Date
DateGt(a, b) == a # NaN /\ b # NaN /\ a > b

\* new Date(new Date(d).setDate(new Date(d).getDate() + n))
AddDays(t, n) == t + n * 24

(***************************************************************************)
(* borrowController                                                        *)
(***************************************************************************)
MsgDateOrder == "'borrowDate' must be before or the same as 'returnDate'"

\* Faulty variant of validateDateOrder: the comparison is dropped.
validateDateOrder_never(startDate, endDate) == "null"

validateDateOrder(startDate, endDate) ==
    IF DateGt(DateParse(startDate), DateParse(endDate))
    THEN MsgDateOrder
    ELSE "null"

Reply(op, status, message, data) ==
    [op |-> op, status |-> status, message |-> message, data |-> data]

NoData == <<>>

\* Faulty variant of itemNotAvailable: only DAMAGED and LOST items are refused.
itemNotAvailable_borrowedPasses(item) == item.status \in {"DAMAGED", "LOST"}

\* item.status !== 'AVAILABLE'
itemNotAvailable(item) == item.status # "AVAILABLE"

\* Faulty variant of borrowItemError: the item is looked up before the user.
borrowItemError_itemBeforeUser(req) ==
    IF req.userId = 0 \/ req.itemId = 0 \/ Falsy(req.borrowDate)
    THEN <<400, "User ID, item ID, and borrow date are required">>
    ELSE IF DateParse(req.borrowDate) = NaN
    THEN <<400, "Invalid date format for borrowDate">>
    ELSE IF ~Falsy(req.returnDate) /\ DateParse(req.returnDate) = NaN
    THEN <<400, "Invalid date format for returnDate">>
    ELSE IF ~Falsy(req.returnDate)
            /\ validateDateOrder(req.borrowDate, req.returnDate) # "null"
    THEN <<400, validateDateOrder(req.borrowDate, req.returnDate)>>
    ELSE IF req.itemId \notin DOMAIN items
    THEN <<404, "Item not found">>
    ELSE IF itemNotAvailable(items[req.itemId])
    THEN <<400, "Item not available for borrowing">>
    ELSE IF req.userId \notin DOMAIN users
    THEN <<404, "User not found">>
    ELSE <<0, "null">>

\* the checks of borrowItem, in the order of the code; "null" when all pass
borrowItemError(req) ==
    IF req.userId = 0 \/ req.itemId = 0 \/ Falsy(req.borrowDate)
    THEN <<400, "User ID, item ID, and borrow date are required">>
    ELSE IF DateParse(req.borrowDate) = NaN
    THEN <<400, "Invalid date format for borrowDate">>
    ELSE IF ~Falsy(req.returnDate) /\ DateParse(req.returnDate) = NaN
    THEN <<400, "Invalid date format for returnDate">>
    ELSE IF ~Falsy(req.returnDate)
            /\ validateDateOrder(req.borrowDate, req.returnDate) # "null"
    THEN <<400, validateDateOrder(req.borrowDate, req.returnDate)>>
    ELSE IF req.userId \notin DOMAIN users
    THEN <<404, "User not found">>
    ELSE IF req.itemId \notin DOMAIN items
    THEN <<404, "Item not found">>
    ELSE IF itemNotAvailable(items[req.itemId])
    THEN <<400, "Item not available for borrowing">>
    ELSE <<0, "null">>

\* Faulty variant of newBorrow: the returnDate of the request is not stored.
newBorrow_dropsReturnDate(req) ==
    [id |-> Len(borrows) + 1,
     userId |-> req.userId,
     itemId |-> req.itemId,
     borrowDate |-> DateParse(req.borrowDate),
     returnDate |-> NULL,
     status |-> "ONGOING"]

\* the row prisma.borrow.create inserts; ids are auto-incremented from 1
newBorrow(req) ==
    [id |-> Len(borrows) + 1,
     userId |-> req.userId,
     itemId |-> req.itemId,
     borrowDate |-> DateParse(req.borrowDate),
     returnDate |-> IF ~Falsy(req.returnDate) THEN DateParse(req.returnDate) ELSE NULL,
     status |-> "ONGOING"]

\* Faulty variant of borrowedItem: borrowing takes one unit of the quantity.
borrowedItem_decrementsQuantity(item) ==
    [item EXCEPT !.status = "BORROWED", !.quantity = @ - 1]

\* data of prisma.item.update after the Borrow row is created
borrowedItem(item) == [item EXCEPT !.status = "BORROWED"]

\* The handler borrowItem on the current store: the response it sends and
\* the Item and Borrow rows it leaves.
borrowItem(req) ==
    LET err == borrowItemError(req) IN
    IF err[2] # "null"
    THEN [res |-> Reply("borrow", err[1], err[2], NoData),
          items |-> items,
          borrows |-> borrows]
    ELSE [res |-> Reply("borrow", 201, "Item borrowed successfully", newBorrow(req)),
          items |-> [items EXCEPT ![req.itemId] = borrowedItem(items[req.itemId])],
          borrows |-> Append(borrows, newBorrow(req))]

\* One borrow request served: the store and the response become the
\* outcome of the handler.  cap is the number of Borrow rows a run may create.
BorrowItem(req, cap) ==
    \E after \in {borrowItem(req)} :
    /\ Len(after.borrows) <= cap
    /\ res' = after.res
    /\ items' = after.items
    /\ borrows' = after.borrows
    /\ UNCHANGED <<users, calls>>

\* Faulty variant of borrowNotOngoing: only RETURNED rows are refused.
borrowNotOngoing_latePasses(borrow) == borrow.status = "RETURNED"

\* Faulty variant of borrowNotOngoing: only LATE rows are refused.
borrowNotOngoing_returnedPasses(borrow) == borrow.status = "LATE"

\* borrow.status !== 'ONGOING'
borrowNotOngoing(borrow) == borrow.status # "ONGOING"

\* Faulty variant of returnItemError: the dates are compared before the
\* status of the Borrow row is looked at.
returnItemError_dateOrderFirst(req) ==
    IF req.borrowId = 0 \/ Falsy(req.returnDate)
    THEN <<400, "Borrow ID and return date are required">>
    ELSE IF DateParse(req.returnDate) = NaN
    THEN <<400, "Invalid date format for returnDate">>
    ELSE IF req.borrowId \notin DOMAIN borrows
    THEN <<404, "Borrow record not found">>
    ELSE IF validateDateOrder(toISOString(borrows[req.borrowId].borrowDate),
                              req.returnDate) # "null"
    THEN <<400, validateDateOrder(toISOString(borrows[req.borrowId].borrowDate),
                                  req.returnDate)>>
    ELSE IF borrowNotOngoing(borrows[req.borrowId])
    THEN <<400, "Invalid borrow record or item already returned">>
    ELSE <<0, "null">>

\* the checks of returnItem, in the order of the code; "null" when all pass
returnItemError(req) ==
    IF req.borrowId = 0 \/ Falsy(req.returnDate)
    THEN <<400, "Borrow ID and return date are required">>
    ELSE IF DateParse(req.returnDate) = NaN
    THEN <<400, "Invalid date format for returnDate">>
    ELSE IF req.borrowId \notin DOMAIN borrows
    THEN <<404, "Borrow record not found">>
    ELSE IF borrowNotOngoing(borrows[req.borrowId])
    THEN <<400, "Invalid borrow record or item already returned">>
    ELSE IF validateDateOrder(toISOString(borrows[req.borrowId].borrowDate),
                              req.returnDate) # "null"
    THEN <<400, validateDateOrder(toISOString(borrows[req.borrowId].borrowDate),
                                  req.returnDate)>>
    ELSE <<0, "null">>

\* Faulty variant of expectedReturnDate: the stored returnDate is ignored.
expectedReturnDate_alwaysDefault(borrow) ==
    AddDays(borrow.borrowDate, DEFAULT_BORROW_PERIOD)

expectedReturnDate(borrow) ==
    IF borrow.returnDate # NULL
    THEN borrow.returnDate
    ELSE AddDays(borrow.borrowDate, DEFAULT_BORROW_PERIOD)

\* Faulty variant of isLate: a return on the expected date counts as late.
isLate_notStrict(returnDate, expected) == DateParse(returnDate) >= expected

isLate(returnDate, expected) == DateGt(DateParse(returnDate), expected)

\* the row after prisma.borrow.update
updatedBorrow(borrow, returnDate) ==
    [borrow EXCEPT
        !.returnDate = DateParse(returnDate),
        !.status = IF isLate(returnDate, expectedReturnDate(borrow))
                   THEN "LATE" ELSE "RETURNED"]

\* Faulty variant of returnedItem: the status of the item is not written.
returnedItem_staysBorrowed(item) == item

\* data of prisma.item.update after the Borrow row is updated
returnedItem(item) == [item EXCEPT !.status = "AVAILABLE"]

\* The handler returnItem on the current store: the response it sends and
\* the Item and Borrow rows it leaves.
returnItem(req) ==
    LET err == returnItemError(req) IN
    IF err[2] # "null"
    THEN [res |-> Reply("return", err[1], err[2], NoData),
          items |-> items,
          borrows |-> borrows]
    ELSE LET borrow == borrows[req.borrowId] IN
         [res |-> Reply("return", 200, "Item returned successfully",
                        updatedBorrow(borrow, req.returnDate)),
          items |-> [items EXCEPT ![borrow.itemId] = returnedItem(items[borrow.itemId])],
          borrows |-> [borrows EXCEPT
                          ![req.borrowId] = updatedBorrow(borrow, req.returnDate)]]

\* One returnItem request served.
ReturnItem(req) ==
    \E after \in {returnItem(req)} :
    /\ res' = after.res
    /\ items' = after.items
    /\ borrows' = after.borrows
    /\ UNCHANGED <<users, calls>>

(***************************************************************************)
(* The store after construction: one registered user, two items, no Borrow *)
(* row.  The first item has any of the four statuses (updateItem can set   *)
(* each of them), the second is as addItem creates it.                     *)
(***************************************************************************)
\* bcrypt.hash(password, 10) and bcrypt.compare(password, hash)
bcryptHash(password) == [bcrypt |-> password]

bcryptCompare(password, hash) == hash = bcryptHash(password)

UserRow(id, username, role) ==
    [id |-> id, username |-> username, password |-> bcryptHash("secret"),
     role |-> role]

ItemRow(id, category, status) ==
    [id |-> id, name |-> "item", category |-> category, location |-> "Lab",
     quantity |-> 1, status |-> status]

Init ==
    /\ users = <<UserRow(1, "admin", "ADMIN")>>
    /\ \E s1 \in ItemStatus :
          items = <<ItemRow(1, "Electronics", s1), ItemRow(2, "Furniture", "AVAILABLE")>>
    /\ borrows = <<>>
    /\ res = Reply("none", 0, "null", NoData)
    /\ calls = <<>>

(***************************************************************************)
(* Spec: the lifecycle.  Requests take every shape of field a check of the *)
(* handlers tells apart, over two calendar days.                           *)
(***************************************************************************)
UserIds == 0..2      \* 0: field missing; 2: no such user
ItemIds == 0..3      \* 0: field missing; 3: no such item
DateInputs == {Absent, Garbage, DateOnly(1), DateOnly(2)}

BorrowRequests ==
    [userId : UserIds, itemId : ItemIds, borrowDate : DateInputs, returnDate : DateInputs]

ReturnRequests == [borrowId : 0..(MaxBorrows + 1), returnDate : DateInputs]

BorrowAction == \E req \in BorrowRequests : BorrowItem(req, MaxBorrows)

ReturnAction == \E req \in ReturnRequests : ReturnItem(req)

Next == BorrowAction \/ ReturnAction

Spec == Init /\ [][Next]_vars

(***************************************************************************)
(* SpecLate: the lateness rule.  Requests of the registered user for the   *)
(* first item, with dates a week apart and times of day.                   *)
(***************************************************************************)
LateDates ==
    {Absent, DateOnly(1), DateTime(1, 12), DateOnly(8), DateTime(8, 12),
     DateOnly(9), DateTime(9, 12)}

LateBorrowRequests ==
    [userId : {1}, itemId : {1}, borrowDate : LateDates, returnDate : LateDates]

LateReturnRequests == [borrowId : 1..(MaxLateBorrows + 1), returnDate : LateDates]

LateBorrowAction == \E req \in LateBorrowRequests : BorrowItem(req, MaxLateBorrows)

LateReturnAction == \E req \in LateReturnRequests : ReturnItem(req)

NextLate == LateBorrowAction \/ LateReturnAction

SpecLate == Init /\ [][NextLate]_vars

(***************************************************************************)
(* SpecSync: the lifecycle from the stores in which no item is BORROWED:   *)
(* the first item is AVAILABLE, DAMAGED or LOST, the second AVAILABLE.     *)
(***************************************************************************)
InitSync == Init /\ items[1].status # "BORROWED"

SpecSync == InitSync /\ [][Next]_vars

(***************************************************************************)
(* itemController: the usage report                                        *)
(***************************************************************************)
\* the dates of a report request: the shapes of DateInputs and a number
ReportDateInputs == DateInputs \cup {Num(0)}

\* /^\d{4}-\d{2}-\d{2}$/.test(dateStr), then new Date(dateStr) is a valid Date
isValidDate(dateStr) == dateStr.kind = "date" /\ DateParse(dateStr) # NaN

validateDateRange(startDate, endDate) ==
    IF DateGt(NewDate(startDate), NewDate(endDate))
    THEN "'start_date' must be before or the same as 'end_date'"
    ELSE "null"

\* validateData on one entry <<key, type>> of the schema: the message
\* `Field '<key>' <text>' as the pair <<text, key>>, "null" when the field
\* passes.  A date is looked at only when it is a string.
fieldError(data, key, type) ==
    IF data[key].kind = "absent"
    THEN <<"required", key>>
    ELSE IF type = "int" /\ ~(data[key].kind = "number" /\ data[key].hour > 0)
    THEN <<"must be a positive integer greater than zero", key>>
    ELSE IF type = "string" /\ ~IsString(data[key])
    THEN <<"must be a string", key>>
    ELSE IF type = "date" /\ IsString(data[key]) /\ ~isValidDate(data[key])
    THEN <<"must be a valid date in YYYY-MM-DD format", key>>
    ELSE <<"null", key>>

\* validateData: the first entry of the schema, in its order, that reports
RECURSIVE validateData(_, _)
validateData(data, schema) ==
    IF schema = <<>>
    THEN <<"null", "">>
    ELSE LET e == fieldError(data, Head(schema)[1], Head(schema)[2]) IN
         IF e[1] # "null" THEN e ELSE validateData(data, Tail(schema))

UsageSchema ==
    <<<<"start_date", "date">>, <<"end_date", "date">>, <<"group_by", "string">>>>

\* where: { borrowDate: { gte: new Date(start_date), lte: new Date(end_date) } }
inWindow(borrow, start_date, end_date) ==
    /\ NewDate(start_date) <= borrow.borrowDate
    /\ borrow.borrowDate <= NewDate(end_date)

\* prisma.borrow.findMany with that where clause, in the order of the ids
borrowData(start_date, end_date) ==
    SelectSeq(borrows, LAMBDA b : inWindow(b, start_date, end_date))

\* item?.[groupByField] || 'Unknown'
groupOf(borrow, groupByField) ==
    LET value == items[borrow.itemId][groupByField] IN
    IF value = "" THEN "Unknown" ELSE value

\* usageAnalysis is the object literal {}: besides the entries the loop
\* adds, usageAnalysis[group] finds the properties every object inherits
\* from Object.prototype, and each of them is truthy
ObjectPrototypeKeys ==
    {"constructor", "__proto__", "hasOwnProperty", "isPrototypeOf",
     "propertyIsEnumerable", "toLocaleString", "toString", "valueOf",
     "__defineGetter__", "__defineSetter__", "__lookupGetter__", "__lookupSetter__"}

\* the own entries of usageAnalysis are kept in insertion order
ownEntry(usageAnalysis, group) ==
    {i \in DOMAIN usageAnalysis : usageAnalysis[i].group = group}

\* !usageAnalysis[group] is false
lookupTruthy(usageAnalysis, group) ==
    ownEntry(usageAnalysis, group) # {} \/ group \in ObjectPrototypeKeys

\* one round of borrowData.forEach: the entry is created when the lookup is
\* falsy, then the counters of usageAnalysis[group] are incremented; when
\* the lookup found an inherited property the increments land on that
\* object and usageAnalysis gets no entry
countBorrow(usageAnalysis, borrow, groupByField) ==
    LET group == groupOf(borrow, groupByField)
        created ==
            IF lookupTruthy(usageAnalysis, group)
            THEN usageAnalysis
            ELSE Append(usageAnalysis,
                        [group |-> group, total_borrowed |-> 0,
                         total_returned |-> 0, items_in_use |-> 0])
    IN [i \in DOMAIN created |->
          IF created[i].group # group
          THEN created[i]
          ELSE [group |-> group,
                total_borrowed |-> created[i].total_borrowed + 1,
                total_returned |-> created[i].total_returned
                                     + (IF borrow.returnDate # NULL THEN 1 ELSE 0),
                items_in_use |-> created[i].items_in_use
                                     + (IF borrow.returnDate # NULL THEN 0 ELSE 1)]]

\* borrowData.forEach from the empty object; Object.values of the result
RECURSIVE usageAnalysisOf(_, _, _)
usageAnalysisOf(data, groupByField, usageAnalysis) ==
    IF data = <<>>
    THEN usageAnalysis
    ELSE usageAnalysisOf(Tail(data), groupByField,
                         countBorrow(usageAnalysis, Head(data), groupByField))

\* The handler usageReport on the current store: the response it sends (a
\* message of validateData is sent with its key as data).
usageReport(req) ==
    LET validationError == validateData(req, UsageSchema) IN
    IF validationError[1] # "null"
    THEN Reply("usageReport", 400, validationError[1], validationError[2])
    ELSE IF validateDateRange(req.start_date, req.end_date) # "null"
    THEN Reply("usageReport", 400, validateDateRange(req.start_date, req.end_date), NoData)
    ELSE IF req.group_by.text \notin {"category", "location"}
    THEN Reply("usageReport", 400,
               "Invalid group_by value. Must be \"category\" or \"location\".", NoData)
    ELSE Reply("usageReport", 200, "success",
               [analysis_period |-> [start_date |-> req.start_date,
                                     end_date |-> req.end_date],
                usage_analysis |->
                    usageAnalysisOf(borrowData(req.start_date, req.end_date),
                                    req.group_by.text, <<>>)])

\* Faulty variant of UsageReport: the report marks every item AVAILABLE.
UsageReport_writesItems(req) ==
    /\ res' = usageReport(req)
    /\ items' = [id \in DOMAIN items |-> returnedItem(items[id])]
    /\ UNCHANGED <<users, borrows, calls>>

\* One usageReport request served: the store is only read.
UsageReport(req) ==
    /\ res' = usageReport(req)
    /\ UNCHANGED <<users, items, borrows, calls>>

(***************************************************************************)
(* itemController: the borrow analysis                                     *)
(***************************************************************************)
AnalysisSchema == <<<<"start_date", "date">>, <<"end_date", "date">>>>

\* _count of one group of prisma.borrow.groupBy({ by: ['itemId'], where:
\* { borrowDate: { gte, lte }, status } })
countOf(itemId, status, start_date, end_date) ==
    Cardinality({i \in DOMAIN borrows :
                    /\ borrows[i].itemId = itemId
                    /\ borrows[i].status = status
                    /\ inWindow(borrows[i], start_date, end_date)})

\* the groups of that query: one per itemId with a matching Borrow row
groupsOf(status, start_date, end_date) ==
    {[itemId |-> id, _count |-> countOf(id, status, start_date, end_date)] :
        id \in {borrows[i].itemId : i \in
                   {j \in DOMAIN borrows :
                       /\ borrows[j].status = status
                       /\ inWindow(borrows[j], start_date, end_date)}}}

\* Faulty variant of groupBy: orderBy sorts ascending.
groupBy_ascending(status, start_date, end_date) ==
    LET groups == groupsOf(status, start_date, end_date)
        n == Cardinality(groups)
    IN {rows \in [1..n -> groups] :
           /\ \A a, b \in 1..n : a # b => rows[a] # rows[b]
           /\ \A a, b \in 1..n : a < b => rows[a]._count <= rows[b]._count}

\* prisma.borrow.groupBy with orderBy: { _count: { itemId: 'desc' } }: the
\* results the store can return, groups of equal count in either order
groupBy(status, start_date, end_date) ==
    LET groups == groupsOf(status, start_date, end_date)
        n == Cardinality(groups)
    IN {rows \in [1..n -> groups] :
           /\ \A a, b \in 1..n : a # b => rows[a] # rows[b]
           /\ \A a, b \in 1..n : a < b => rows[a]._count >= rows[b]._count}

\* item?.category || 'Uncategorized'
categoryOf(item) == IF item.category = "" THEN "Uncategorized" ELSE item.category

\* frequentBorrows.map: each group with the item found by its id
frequentlyBorrowedItems(frequentBorrows) ==
    [k \in DOMAIN frequentBorrows |->
        LET item == items[frequentBorrows[k].itemId] IN
        [item_id |-> item.id,
         name |-> item.name,
         category |-> categoryOf(item),
         total_borrowed |-> frequentBorrows[k]._count]]

\* Faulty variant of inefficientItems: total_borrowed is the number of all
\* Borrow rows of the item.
inefficientItems_overallCount(lateReturns) ==
    [k \in DOMAIN lateReturns |->
        LET item == items[lateReturns[k].itemId] IN
        [item_id |-> item.id,
         name |-> item.name,
         category |-> categoryOf(item),
         total_borrowed |->
             Cardinality({i \in DOMAIN borrows : borrows[i].itemId = item.id}),
         total_late_returns |-> lateReturns[k]._count]]

\* lateReturns.map: both counters are the _count of the LATE group
inefficientItems(lateReturns) ==
    [k \in DOMAIN lateReturns |->
        LET item == items[lateReturns[k].itemId] IN
        [item_id |-> item.id,
         name |-> item.name,
         category |-> categoryOf(item),
         total_borrowed |-> lateReturns[k]._count,
         total_late_returns |-> lateReturns[k]._count]]

\* The handler borrowAnalysis on the current store: the responses it can
\* send, one for each result the two groupBy queries can return.
borrowAnalysis(req) ==
    LET validationError == validateData(req, AnalysisSchema) IN
    IF validationError[1] # "null"
    THEN {Reply("borrowAnalysis", 400, validationError[1], validationError[2])}
    ELSE IF validateDateRange(req.start_date, req.end_date) # "null"
    THEN {Reply("borrowAnalysis", 400,
                validateDateRange(req.start_date, req.end_date), NoData)}
    ELSE {Reply("borrowAnalysis", 200, "success",
                [analysis_period |-> [start_date |-> req.start_date,
                                      end_date |-> req.end_date],
                 frequently_borrowed_items |-> frequentlyBorrowedItems(frequentBorrows),
                 inefficient_items |-> inefficientItems(lateReturns)]) :
             frequentBorrows \in groupBy("RETURNED", req.start_date, req.end_date),
             lateReturns \in groupBy("LATE", req.start_date, req.end_date)}

\* One borrowAnalysis request served: the store is only read.
BorrowAnalysis(req) ==
    /\ res' \in borrowAnalysis(req)
    /\ UNCHANGED <<users, items, borrows, calls>>

(***************************************************************************)
(* SpecAnalysis: the borrow analysis over stores that borrow and           *)
(* returnItem build, with returns in time and late.  The second item has   *)
(* the empty string as category.                                           *)
(***************************************************************************)
InitAnalysis ==
    /\ users = <<UserRow(1, "admin", "ADMIN")>>
    /\ items = <<ItemRow(1, "Electronics", "AVAILABLE"), ItemRow(2, "", "AVAILABLE")>>
    /\ borrows = <<>>
    /\ res = Reply("none", 0, "null", NoData)
    /\ calls = <<>>

AnalysisBorrowRequests ==
    [userId : {1}, itemId : {1, 2}, borrowDate : {DateOnly(1), DateOnly(2)},
     returnDate : {Absent}]

AnalysisReturnRequests ==
    [borrowId : 1..MaxAnalysisBorrows, returnDate : {DateOnly(2), DateOnly(10)}]

\* the windows over the two days of the Borrow rows, in and out of order
AnalysisWindows ==
    [start_date : {DateOnly(1), DateOnly(2)}, end_date : {DateOnly(1), DateOnly(2)}]

AnalysisBorrowAction ==
    \E req \in AnalysisBorrowRequests : BorrowItem(req, MaxAnalysisBorrows)

AnalysisReturnAction == \E req \in AnalysisReturnRequests : ReturnItem(req)

WindowAnalysisAction == \E req \in AnalysisWindows : BorrowAnalysis(req)

NextAnalysis == AnalysisBorrowAction \/ AnalysisReturnAction \/ WindowAnalysisAction

SpecAnalysis == InitAnalysis /\ [][NextAnalysis]_vars

(***************************************************************************)
(* SpecReport: the usage report over stores that borrow and returnItem     *)
(* build.  The second item carries a category that addItem accepts like    *)
(* any other string.                                                       *)
(***************************************************************************)
InitReport ==
    /\ users = <<UserRow(1, "admin", "ADMIN")>>
    /\ \E c2 \in {"Furniture", "constructor"} :
          items = <<ItemRow(1, "Electronics", "AVAILABLE"), ItemRow(2, c2, "AVAILABLE")>>
    /\ borrows = <<>>
    /\ res = Reply("none", 0, "null", NoData)
    /\ calls = <<>>

ReportBorrowRequests ==
    [userId : {1}, itemId : {1, 2}, borrowDate : {DateOnly(1), DateOnly(2)},
     returnDate : {Absent, DateOnly(2)}]

ReportReturnRequests == [borrowId : 1..MaxReportBorrows, returnDate : {DateOnly(2)}]

UsageRequests ==
    [start_date : ReportDateInputs, end_date : ReportDateInputs,
     group_by : {Absent, Str("category"), Str("location"), Str("name")}]

ReportBorrowAction == \E req \in ReportBorrowRequests : BorrowItem(req, MaxReportBorrows)

ReportReturnAction == \E req \in ReportReturnRequests : ReturnItem(req)

UsageReportAction == \E req \in UsageRequests : UsageReport(req)

AnalysisRequests == [start_date : ReportDateInputs, end_date : ReportDateInputs]

BorrowAnalysisAction == \E req \in AnalysisRequests : BorrowAnalysis(req)

NextReport ==
    \/ ReportBorrowAction
    \/ ReportReturnAction
    \/ UsageReportAction
    \/ BorrowAnalysisAction

SpecReport == InitReport /\ [][NextReport]_vars

(***************************************************************************)
(* borrowController, one store call at a time.  The handlers are async     *)
(* functions without a transaction: between two awaited store calls of a   *)
(* request the store calls of other requests can run.  calls[c] is the     *)
(* request served in slot c: the store call it runs next (pc), its body    *)
(* (req) and the row its handler holds (borrow).                           *)
(***************************************************************************)
CallIds == 1..MaxCalls

Idle == [pc |-> "idle"]

\* the checks of borrowItem made before its first store call
borrowBodyError(req) ==
    IF req.userId = 0 \/ req.itemId = 0 \/ Falsy(req.borrowDate)
    THEN <<400, "User ID, item ID, and borrow date are required">>
    ELSE IF DateParse(req.borrowDate) = NaN
    THEN <<400, "Invalid date format for borrowDate">>
    ELSE IF ~Falsy(req.returnDate) /\ DateParse(req.returnDate) = NaN
    THEN <<400, "Invalid date format for returnDate">>
    ELSE IF ~Falsy(req.returnDate)
            /\ validateDateOrder(req.borrowDate, req.returnDate) # "null"
    THEN <<400, validateDateOrder(req.borrowDate, req.returnDate)>>
    ELSE <<0, "null">>

\* the checks of returnItem made before its first store call
returnBodyError(req) ==
    IF req.borrowId = 0 \/ Falsy(req.returnDate)
    THEN <<400, "Borrow ID and return date are required">>
    ELSE IF DateParse(req.returnDate) = NaN
    THEN <<400, "Invalid date format for returnDate">>
    ELSE <<0, "null">>

\* the handler in slot c sends its response and ends
Respond(c, reply) ==
    /\ res' = reply
    /\ calls' = [calls EXCEPT ![c] = Idle]

\* the handler in slot c goes on to the store call pc, holding the row
Await(c, pc, row) ==
    /\ calls' = [calls EXCEPT ![c] = [@ EXCEPT !.pc = pc, !.borrow = row]]
    /\ UNCHANGED res

\* a borrow request arrives: the checks of the body
BorrowStart(c, req) ==
    /\ calls[c] = Idle
    /\ LET err == borrowBodyError(req) IN
       IF err[2] # "null"
       THEN Respond(c, Reply("borrow", err[1], err[2], NoData))
       ELSE /\ calls' = [calls EXCEPT ![c] =
                           [pc |-> "findUser", op |-> "borrow", req |-> req,
                            borrow |-> NoData]]
            /\ UNCHANGED res
    /\ UNCHANGED <<users, items, borrows>>

\* prisma.user.findUnique, and the check of its result
BorrowFindUser(c) ==
    /\ calls[c].pc = "findUser" /\ calls[c].op = "borrow"
    /\ IF calls[c].req.userId \notin DOMAIN users
       THEN Respond(c, Reply("borrow", 404, "User not found", NoData))
       ELSE Await(c, "findItem", NoData)
    /\ UNCHANGED <<users, items, borrows>>

\* prisma.item.findUnique, and the checks of its result
BorrowFindItem(c) ==
    /\ calls[c].pc = "findItem" /\ calls[c].op = "borrow"
    /\ IF calls[c].req.itemId \notin DOMAIN items
       THEN Respond(c, Reply("borrow", 404, "Item not found", NoData))
       ELSE IF itemNotAvailable(items[calls[c].req.itemId])
       THEN Respond(c, Reply("borrow", 400, "Item not available for borrowing", NoData))
       ELSE Await(c, "create", NoData)
    /\ UNCHANGED <<users, items, borrows>>

\* Faulty variant of BorrowCreate: the row is created only while the item
\* is still AVAILABLE.
BorrowCreate_checksAgain(c) ==
    /\ calls[c].pc = "create" /\ calls[c].op = "borrow"
    /\ IF itemNotAvailable(items[calls[c].req.itemId])
       THEN /\ Respond(c, Reply("borrow", 400, "Item not available for borrowing", NoData))
            /\ UNCHANGED borrows
       ELSE /\ borrows' = Append(borrows, newBorrow(calls[c].req))
            /\ Await(c, "updateItem", newBorrow(calls[c].req))
    /\ UNCHANGED <<users, items>>

\* prisma.borrow.create
BorrowCreate(c) ==
    /\ calls[c].pc = "create" /\ calls[c].op = "borrow"
    /\ borrows' = Append(borrows, newBorrow(calls[c].req))
    /\ Await(c, "updateItem", newBorrow(calls[c].req))
    /\ UNCHANGED <<users, items>>

\* prisma.item.update, and the response 201
BorrowUpdateItem(c) ==
    /\ calls[c].pc = "updateItem" /\ calls[c].op = "borrow"
    /\ items' = [items EXCEPT ![calls[c].req.itemId] = borrowedItem(@)]
    /\ Respond(c, Reply("borrow", 201, "Item borrowed successfully", calls[c].borrow))
    /\ UNCHANGED <<users, borrows>>

\* a returnItem request arrives: the checks of the body
ReturnStart(c, req) ==
    /\ calls[c] = Idle
    /\ LET err == returnBodyError(req) IN
       IF err[2] # "null"
       THEN Respond(c, Reply("return", err[1], err[2], NoData))
       ELSE /\ calls' = [calls EXCEPT ![c] =
                           [pc |-> "findBorrow", op |-> "return", req |-> req,
                            borrow |-> NoData]]
            /\ UNCHANGED res
    /\ UNCHANGED <<users, items, borrows>>

\* prisma.borrow.findUnique, and the checks of its result; the handler
\* keeps the row it read
ReturnFindBorrow(c) ==
    /\ calls[c].pc = "findBorrow" /\ calls[c].op = "return"
    /\ LET req == calls[c].req IN
       IF req.borrowId \notin DOMAIN borrows
       THEN Respond(c, Reply("return", 404, "Borrow record not found", NoData))
       ELSE IF borrowNotOngoing(borrows[req.borrowId])
       THEN Respond(c, Reply("return", 400,
                             "Invalid borrow record or item already returned", NoData))
       ELSE IF validateDateOrder(toISOString(borrows[req.borrowId].borrowDate),
                                 req.returnDate) # "null"
       THEN Respond(c, Reply("return", 400,
                             validateDateOrder(toISOString(borrows[req.borrowId].borrowDate),
                                               req.returnDate), NoData))
       ELSE Await(c, "updateBorrow", borrows[req.borrowId])
    /\ UNCHANGED <<users, items, borrows>>

\* prisma.borrow.update: returnDate and status, computed from the row that
\* was read, are written into the row of the store
ReturnUpdateBorrow(c) ==
    /\ calls[c].pc = "updateBorrow" /\ calls[c].op = "return"
    /\ LET id == calls[c].req.borrowId
           data == updatedBorrow(calls[c].borrow, calls[c].req.returnDate)
           written == [borrows[id] EXCEPT !.returnDate = data.returnDate,
                                          !.status = data.status]
       IN /\ borrows' = [borrows EXCEPT ![id] = written]
          /\ Await(c, "updateItem", written)
    /\ UNCHANGED <<users, items>>

\* prisma.item.update, and the response 200
ReturnUpdateItem(c) ==
    /\ calls[c].pc = "updateItem" /\ calls[c].op = "return"
    /\ items' = [items EXCEPT ![calls[c].borrow.itemId] = returnedItem(@)]
    /\ Respond(c, Reply("return", 200, "Item returned successfully", calls[c].borrow))
    /\ UNCHANGED <<users, borrows>>

(***************************************************************************)
(* SpecRace: borrow requests served at the same time, in any interleaving  *)
(* of their store calls.  SpecReturnRace: borrow and returnItem requests   *)
(* served at the same time, with at most one borrow request in flight for  *)
(* an item.                                                                *)
(***************************************************************************)
InitRace ==
    /\ users = <<UserRow(1, "admin", "ADMIN")>>
    /\ items = <<ItemRow(1, "Electronics", "AVAILABLE"), ItemRow(2, "Furniture", "AVAILABLE")>>
    /\ borrows = <<>>
    /\ res = Reply("none", 0, "null", NoData)
    /\ calls = [c \in CallIds |-> Idle]

RaceBorrowRequests ==
    [userId : {1, 2}, itemId : {1, 2}, borrowDate : {DateOnly(1)}, returnDate : {Absent}]

RaceReturnRequests ==
    [borrowId : 1..MaxRaceBorrows, returnDate : {DateOnly(2), DateOnly(10)}]

\* the borrow requests in flight
BorrowCalls == {c \in CallIds : calls[c] # Idle /\ calls[c].op = "borrow"}

\* the Borrow rows that exist or that a request in flight can still create
RowsAhead ==
    Len(borrows) + Cardinality({c \in BorrowCalls : calls[c].pc # "updateItem"})

RaceBorrowStart ==
    \E c \in CallIds, req \in RaceBorrowRequests :
        RowsAhead < MaxRaceBorrows /\ BorrowStart(c, req)

OneBorrowStart ==
    \E c \in CallIds, req \in RaceBorrowRequests :
        /\ RowsAhead < MaxRaceBorrows
        /\ \A d \in BorrowCalls : calls[d].req.itemId # req.itemId
        /\ BorrowStart(c, req)

RaceReturnStart == \E c \in CallIds, req \in RaceReturnRequests : ReturnStart(c, req)

RaceFindUser == \E c \in CallIds : BorrowFindUser(c)

RaceFindItem == \E c \in CallIds : BorrowFindItem(c)

RaceCreate == \E c \in CallIds : BorrowCreate(c)

RaceBorrowUpdateItem == \E c \in CallIds : BorrowUpdateItem(c)

RaceFindBorrow == \E c \in CallIds : ReturnFindBorrow(c)

RaceUpdateBorrow == \E c \in CallIds : ReturnUpdateBorrow(c)

RaceReturnUpdateItem == \E c \in CallIds : ReturnUpdateItem(c)

BorrowStoreCall ==
    \/ RaceFindUser
    \/ RaceFindItem
    \/ RaceCreate
    \/ RaceBorrowUpdateItem

ReturnStoreCall ==
    \/ RaceFindBorrow
    \/ RaceUpdateBorrow
    \/ RaceReturnUpdateItem

NextRace == RaceBorrowStart \/ BorrowStoreCall

SpecRace == InitRace /\ [][NextRace]_vars

NextReturnRace ==
    \/ OneBorrowStart
    \/ BorrowStoreCall
    \/ RaceReturnStart
    \/ ReturnStoreCall

SpecReturnRace == InitRace /\ [][NextReturnRace]_vars

(***************************************************************************)
(* SpecFailure: borrow and returnItem requests served one after the other, *)
(* one store call at a time, where an awaited store call can reject.  The  *)
(* handlers run their store calls outside a transaction and their catch    *)
(* blocks only send the response 500.                                      *)
(***************************************************************************)
\* an awaited store call of the handler in slot c rejects: the catch block
\* sends 500; what the handler wrote before stays in the store
StoreCallFails(c) ==
    /\ calls[c] # Idle
    /\ Respond(c, Reply(calls[c].op, 500,
                        IF calls[c].op = "borrow"
                        THEN "Error borrowing item" ELSE "Error returning item",
                        NoData))
    /\ UNCHANGED <<users, items, borrows>>

\* no request is in flight
Quiescent == \A c \in CallIds : calls[c] = Idle

FailBorrowStart ==
    \E c \in CallIds, req \in RaceBorrowRequests :
        Quiescent /\ Len(borrows) < MaxRaceBorrows /\ BorrowStart(c, req)

FailReturnStart ==
    \E c \in CallIds, req \in RaceReturnRequests : Quiescent /\ ReturnStart(c, req)

RaceStoreCallFails == \E c \in CallIds : StoreCallFails(c)

NextFailure ==
    \/ FailBorrowStart
    \/ FailReturnStart
    \/ BorrowStoreCall
    \/ ReturnStoreCall
    \/ RaceStoreCallFails

SpecFailure == InitRace /\ [][NextFailure]_vars

(***************************************************************************)
(* itemController, item maintenance: addItem and updateItem.  A field of   *)
(* the body is a value as above (a string is Str(s), a JSON number is      *)
(* Num(n)); the id of the route /:id is the text of the path segment,      *)
(* Num(n) for the digits of n and Str(s) for any other text.               *)
(***************************************************************************)
AddItemSchema ==
    <<<<"name", "string">>, <<"category", "string">>, <<"location", "string">>,
      <<"quantity", "int">>>>

UpdateItemSchema == AddItemSchema \o <<<<"status", "string">>>>

allowedStatuses == {"AVAILABLE", "BORROWED", "DAMAGED", "LOST"}

\* parseInt(id, 10) of a path segment; NaN when it does not start with digits
parseInt(id) == IF id.kind = "number" THEN id.hour ELSE NaN

\* data: { name, category, location, quantity, status } of an Item row
itemData(id, body, status) ==
    [id |-> id, name |-> body.name.text, category |-> body.category.text,
     location |-> body.location.text, quantity |-> body.quantity.hour,
     status |-> status]

\* The handler addItem on the current store: the response it sends and the
\* Item rows it leaves.  The new row is AVAILABLE whatever the body says.
addItem(body) ==
    LET validationError == validateData(body, AddItemSchema)
        newItem == itemData(Len(items) + 1, body, "AVAILABLE") IN
    IF validationError[1] # "null"
    THEN [res |-> Reply("addItem", 400, validationError[1], validationError[2]),
          items |-> items]
    ELSE [res |-> Reply("addItem", 201, "Item added successfully", newItem),
          items |-> Append(items, newItem)]

\* One addItem request served.
AddItem(body) ==
    \E after \in {addItem(body)} :
    /\ Len(after.items) <= MaxItems
    /\ res' = after.res
    /\ items' = after.items
    /\ UNCHANGED <<users, borrows, calls>>

\* The handler updateItem on the current store.  The status of the body is
\* written as it is: the Borrow rows of the item are not read.
updateItem(id, body) ==
    LET itemId == parseInt(id)
        validationError == validateData(body, UpdateItemSchema) IN
    IF Falsy(id) \/ itemId = NaN
    THEN [res |-> Reply("updateItem", 400, "Invalid or missing id parameter", NoData),
          items |-> items]
    ELSE IF itemId \notin DOMAIN items
    THEN [res |-> Reply("updateItem", 404, "Item not found", NoData),
          items |-> items]
    ELSE IF validationError[1] # "null"
    THEN [res |-> Reply("updateItem", 400, validationError[1], validationError[2]),
          items |-> items]
    ELSE IF body.status.text \notin allowedStatuses
    THEN [res |-> Reply("updateItem", 400, "Invalid status value", NoData),
          items |-> items]
    ELSE [res |-> Reply("updateItem", 200, "Item updated successfully",
                        itemData(itemId, body, body.status.text)),
          items |-> [items EXCEPT ![itemId] = itemData(itemId, body, body.status.text)]]

\* One updateItem request served.
UpdateItem(id, body) ==
    \E after \in {updateItem(id, body)} :
    /\ res' = after.res
    /\ items' = after.items
    /\ UNCHANGED <<users, borrows, calls>>

(***************************************************************************)
(* SpecMaintenance: the lifecycle together with item maintenance, each     *)
(* request served whole.  The store starts with one registered user and    *)
(* no item: every Item row is created by addItem.                          *)
(***************************************************************************)
InitMaintenance ==
    /\ users = <<UserRow(1, "admin", "ADMIN")>>
    /\ items = <<>>
    /\ borrows = <<>>
    /\ res = Reply("none", 0, "null", NoData)
    /\ calls = <<>>

AddItemAction ==
    \E body \in [name : {Str("item"), Absent}, category : {Str("Electronics")},
                 location : {Str("Lab")}, quantity : {Num(1), Num(0)},
                 status : {Absent}] :
        AddItem(body)

UpdateItemAction ==
    \E id \in {Num(n) : n \in 0..MaxItems} \cup {Str("abc")},
       body \in [name : {Str("item"), Absent}, category : {Str("Electronics")},
                 location : {Str("Lab")}, quantity : {Num(1), Num(0)},
                 status : {Str(s) : s \in allowedStatuses} \cup {Str("BROKEN"), Absent}] :
        UpdateItem(id, body)

MaintBorrowAction ==
    \E req \in [userId : {1}, itemId : 1..MaxItems, borrowDate : {DateOnly(1)},
                returnDate : {Absent}] :
        BorrowItem(req, MaxMaintBorrows)

MaintReturnAction ==
    \E req \in [borrowId : 1..MaxMaintBorrows, returnDate : {DateOnly(2)}] :
        ReturnItem(req)

NextMaintenance ==
    \/ AddItemAction
    \/ UpdateItemAction
    \/ MaintBorrowAction
    \/ MaintReturnAction

SpecMaintenance == InitMaintenance /\ [][NextMaintenance]_vars

(***************************************************************************)
(* The middleware authenticateAndAuthorize, the handlers getItem, register *)
(* and login, and the routes of itemRouter and userRouter.  The            *)
(* Authorization header is the sequence of its parts between spaces; a     *)
(* part is a record [text, signed, id, role]: a JWT with the payload       *)
(* {id, role}, signed with JWT_SECRET or not, or any other text.           *)
(***************************************************************************)
validRoles == {"ADMIN", "TEACHER", "STUDENT"}

\* jwt.sign({ id: user.id, role: user.role }, JWT_SECRET): no expiry
jwtSign(id, role) == [text |-> "jwt", signed |-> TRUE, id |-> id, role |-> role]

\* a JWT signed with another secret, or altered after it was signed
Forged(id, role) == [text |-> "jwt", signed |-> FALSE, id |-> id, role |-> role]

\* a part of the header that is not a JWT
Word(s) == [text |-> s, signed |-> FALSE, id |-> 0, role |-> ""]

\* authHeader?.split(' ')[1]; undefined is falsy like the empty string
tokenOf(authHeader) == IF Len(authHeader) < 2 THEN Word("") ELSE authHeader[2]

\* jwt.verify(token, JWT_SECRET) of a token it accepts: the payload
jwtVerify(token) == [id |-> token.id, role |-> token.role]

\* Faulty variant of authenticateAndAuthorize: the role is not looked at.
authenticateAndAuthorize_anyRole(roles, authHeader) ==
    LET token == tokenOf(authHeader) IN
    IF token.text = ""
    THEN <<401, "Access denied, token missing!">>
    ELSE IF ~token.signed
    THEN <<401, "Invalid token">>
    ELSE <<0, "next">>

\* The middleware authenticateAndAuthorize(roles) on a request: the status
\* and message it sends, <<0, "next">> when it calls next().
authenticateAndAuthorize(roles, authHeader) ==
    LET token == tokenOf(authHeader) IN
    IF token.text = ""
    THEN <<401, "Access denied, token missing!">>
    ELSE IF ~token.signed
    THEN <<401, "Invalid token">>
    ELSE IF jwtVerify(token).role \notin roles
    THEN <<403, "Forbidden: You do not have permission to access this resource.">>
    ELSE <<0, "next">>

\* the routes behind the middleware and the roles each of them passes to it
ProtectedRoutes ==
    {"addItem", "updateItem", "getItem", "borrow", "return", "usageReport",
     "borrowAnalysis", "register"}

routeRoles(route) ==
    CASE route \in {"addItem", "updateItem"} -> {"ADMIN", "TEACHER"}
      [] route \in {"getItem", "borrow", "return"} -> {"ADMIN", "TEACHER", "STUDENT"}
      [] route \in {"usageReport", "borrowAnalysis", "register"} -> {"ADMIN"}

\* The handler getItem on the current store: the response it sends.
getItem(id) ==
    IF Falsy(id) \/ parseInt(id) = NaN
    THEN Reply("getItem", 400, "Invalid or missing id parameter", NoData)
    ELSE IF parseInt(id) \notin DOMAIN items
    THEN Reply("getItem", 404, "Item not found", NoData)
    ELSE Reply("getItem", 200, "null", items[parseInt(id)])

\* prisma.user.findUnique({ where: { username } }): the rows found
usersNamed(username) == {u \in DOMAIN users : users[u].username = username}

\* The handler register on the current store: the response it sends and
\* the User rows it leaves.
register(body) ==
    LET newUser == [id |-> Len(users) + 1, username |-> body.username,
                    password |-> bcryptHash(body.password), role |-> body.role] IN
    IF body.role \notin validRoles
    THEN [res |-> Reply("register", 400,
                        "Invalid role. valid roles: ADMIN, TEACHER, STUDENT", NoData),
          users |-> users]
    ELSE IF usersNamed(body.username) # {}
    THEN [res |-> Reply("register", 400, "Username already taken", NoData),
          users |-> users]
    ELSE [res |-> Reply("register", 201, "User registered successfully", newUser),
          users |-> Append(users, newUser)]

\* The handler login on the current store: the response it sends, with the
\* token it signs.
login(body) ==
    IF usersNamed(body.username) = {}
    THEN Reply("login", 404, "User not found", NoData)
    ELSE LET user == users[CHOOSE u \in usersNamed(body.username) : TRUE] IN
         IF ~bcryptCompare(body.password, user.password)
         THEN Reply("login", 401, "Invalid credentials", NoData)
         ELSE Reply("login", 200, "Login successful", jwtSign(user.id, user.role))

\* A request arrives at a route behind the middleware, in slot c.  The
\* middleware answers it, or sets req.user and calls next(): the handler of
\* the route runs next.
Arrive(c, route, authHeader) ==
    /\ calls[c] = Idle
    /\ \E verdict \in {authenticateAndAuthorize(routeRoles(route), authHeader)} :
          IF verdict[2] # "next"
          THEN Respond(c, Reply(route, verdict[1], verdict[2], NoData))
          ELSE /\ calls' = [calls EXCEPT ![c] =
                              [pc |-> "handler", op |-> route,
                               req |-> [authorization |-> authHeader],
                               user |-> jwtVerify(tokenOf(authHeader))]]
               /\ UNCHANGED res
    /\ UNCHANGED <<users, items, borrows>>

\* next() reached the handler of route in slot c
Served(c, route) == calls[c].pc = "handler" /\ calls[c].op = route

(***************************************************************************)
(* SpecAuth: requests to every route, served one after the other, with     *)
(* every shape of Authorization header.  The store starts with the         *)
(* administrator and one item.  A signed token is one login can issue:     *)
(* User rows are never changed or deleted.  The handler of a route reads   *)
(* the body of the request when it runs.                                   *)
(***************************************************************************)
InitAuth ==
    /\ users = <<UserRow(1, "admin", "ADMIN")>>
    /\ items = <<ItemRow(1, "Electronics", "AVAILABLE")>>
    /\ borrows = <<>>
    /\ res = Reply("none", 0, "null", NoData)
    /\ calls = [c \in CallIds |-> Idle]

IssuedTokens == {jwtSign(users[u].id, users[u].role) : u \in DOMAIN users}

AuthHeaders ==
    {<<>>, <<Word("Bearer")>>, <<Word("Bearer"), Word("")>>,
     <<Word("Bearer"), Forged(1, "ADMIN")>>}
    \cup {<<Word("Bearer"), token>> : token \in IssuedTokens}

\* the rows a run may still create
RoomFor(route) ==
    /\ route = "addItem" => Len(items) < MaxItems
    /\ route = "borrow" => Len(borrows) < MaxAuthBorrows

AuthItemBodies ==
    [name : {Str("item")}, category : {Str("Electronics")}, location : {Str("Lab")},
     quantity : {Num(1), Num(0)}, status : {Str("AVAILABLE"), Str("DAMAGED")}]

AuthItemIds == {Num(1), Num(0)}

\* the slot of the one request served at a time
FirstCall == CHOOSE c \in CallIds : \A d \in CallIds : c <= d

ArriveAction ==
    \E route \in ProtectedRoutes, authHeader \in AuthHeaders :
        Quiescent /\ RoomFor(route) /\ Arrive(FirstCall, route, authHeader)

AddItemHandled ==
    \E c \in CallIds, body \in AuthItemBodies :
        /\ Served(c, "addItem")
        /\ \E after \in {addItem(body)} :
              /\ items' = after.items
              /\ Respond(c, after.res)
        /\ UNCHANGED <<users, borrows>>

UpdateItemHandled ==
    \E c \in CallIds, id \in AuthItemIds, body \in AuthItemBodies :
        /\ Served(c, "updateItem")
        /\ \E after \in {updateItem(id, body)} :
              /\ items' = after.items
              /\ Respond(c, after.res)
        /\ UNCHANGED <<users, borrows>>

GetItemHandled ==
    \E c \in CallIds, id \in AuthItemIds :
        /\ Served(c, "getItem")
        /\ Respond(c, getItem(id))
        /\ UNCHANGED <<users, items, borrows>>

BorrowHandled ==
    \E c \in CallIds,
       req \in [userId : {1, 2}, itemId : {1}, borrowDate : {DateOnly(1)},
                returnDate : {Absent}] :
        /\ Served(c, "borrow")
        /\ \E after \in {borrowItem(req)} :
              /\ items' = after.items
              /\ borrows' = after.borrows
              /\ Respond(c, after.res)
        /\ UNCHANGED users

ReturnHandled ==
    \E c \in CallIds, req \in [borrowId : 1..MaxAuthBorrows, returnDate : {DateOnly(2)}] :
        /\ Served(c, "return")
        /\ \E after \in {returnItem(req)} :
              /\ items' = after.items
              /\ borrows' = after.borrows
              /\ Respond(c, after.res)
        /\ UNCHANGED users

UsageReportHandled ==
    \E c \in CallIds,
       req \in [start_date : {DateOnly(1)}, end_date : {DateOnly(2)},
                group_by : {Str("category"), Str("status")}] :
        /\ Served(c, "usageReport")
        /\ Respond(c, usageReport(req))
        /\ UNCHANGED <<users, items, borrows>>

BorrowAnalysisHandled ==
    \E c \in CallIds,
       req \in [start_date : {DateOnly(1), Garbage}, end_date : {DateOnly(2)}] :
        /\ Served(c, "borrowAnalysis")
        /\ \E reply \in borrowAnalysis(req) : Respond(c, reply)
        /\ UNCHANGED <<users, items, borrows>>

RegisterHandled ==
    \E c \in CallIds,
       body \in [username : {"admin", "budi"}, password : {"secret"},
                 role : validRoles \cup {"GUEST"}] :
        /\ Served(c, "register")
        /\ \E after \in {register(body)} :
              /\ users' = after.users
              /\ Respond(c, after.res)
        /\ UNCHANGED <<items, borrows>>

\* POST /login has no middleware: the handler runs on arrival
LoginAction ==
    \E body \in [username : {"admin", "budi", "nobody"}, password : {"secret", "guess"}] :
        /\ Quiescent
        /\ Respond(FirstCall, login(body))
        /\ UNCHANGED <<users, items, borrows>>

NextAuth ==
    \/ ArriveAction
    \/ AddItemHandled
    \/ UpdateItemHandled
    \/ GetItemHandled
    \/ BorrowHandled
    \/ ReturnHandled
    \/ UsageReportHandled
    \/ BorrowAnalysisHandled
    \/ RegisterHandled
    \/ LoginAction

SpecAuth == InitAuth /\ [][NextAuth]_vars

(***************************************************************************)
(* Properties of the lifecycle, under Spec.  A property of a handler is    *)
(* stated of its outcome on every reachable store and every request.       *)
(***************************************************************************)
\* a request date that is given and readable
GivenDate(s) == s.kind \in {"date", "datetime"} /\ DateParse(s) >= 0

\* the request passes the validation of borrow: required fields present,
\* valid dates, borrowDate <= returnDate when one is given, existing user,
\* existing item
PassesBorrowValidation(req) ==
    /\ req.userId \in DOMAIN users
    /\ req.itemId \in DOMAIN items
    /\ GivenDate(req.borrowDate)
    /\ \/ req.returnDate.kind = "absent"
       \/ /\ GivenDate(req.returnDate)
          /\ DateParse(req.borrowDate) <= DateParse(req.returnDate)

\* C1: a borrow request that passes validation and whose item is AVAILABLE
\* succeeds; afterwards the item is BORROWED and exactly one Borrow row was
\* added, for that user and item, ONGOING, with the dates of the request
\* (returnDate unset when none was given).
C1_BorrowSucceeds ==
    \A req \in BorrowRequests :
        (PassesBorrowValidation(req) /\ items[req.itemId].status = "AVAILABLE")
        => \A after \in {borrowItem(req)} :
           /\ after.res.status = 201
           /\ after.res.message = "Item borrowed successfully"
           /\ after.items[req.itemId].status = "BORROWED"
           /\ Len(after.borrows) = Len(borrows) + 1
           /\ \A i \in DOMAIN borrows : after.borrows[i] = borrows[i]
           /\ LET b == after.borrows[Len(after.borrows)] IN
              /\ b.userId = req.userId
              /\ b.itemId = req.itemId
              /\ b.status = "ONGOING"
              /\ b.borrowDate = DateParse(req.borrowDate)
              /\ b.returnDate = IF req.returnDate.kind = "absent"
                                THEN NULL ELSE DateParse(req.returnDate)
              /\ after.res.data = b

\* a second Borrow row was just created with an explicit returnDate
C1_Witness ==
    /\ res.op = "borrow" /\ res.status = 201
    /\ Len(borrows) = 2
    /\ borrows[2].status = "ONGOING"
    /\ borrows[2].returnDate = DateParse(DateOnly(2))
    /\ items[borrows[2].itemId].status = "BORROWED"

\* C2: a borrow request for an existing item that is BORROWED, DAMAGED or
\* LOST is rejected and leaves the Borrow rows and every Item status as they
\* were; the rejection is the item-not-available error whenever the request
\* passes the checks that the handler makes before it looks at the status.
C2_UnavailableRejected ==
    \A req \in BorrowRequests :
        (/\ req.itemId \in DOMAIN items
         /\ items[req.itemId].status \in {"BORROWED", "DAMAGED", "LOST"})
        => \A after \in {borrowItem(req)} :
           /\ after.res.status \in {400, 404}
           /\ after.borrows = borrows
           /\ after.items = items
           /\ PassesBorrowValidation(req)
                => /\ after.res.status = 400
                   /\ after.res.message = "Item not available for borrowing"

\* a borrow of an item that an earlier borrow left BORROWED was refused,
\* while the other item is LOST
C2_Witness ==
    /\ res.op = "borrow"
    /\ res.message = "Item not available for borrowing"
    /\ \E i \in DOMAIN borrows :
          borrows[i].status = "ONGOING" /\ items[borrows[i].itemId].status = "BORROWED"
    /\ items[1].status = "LOST"

\* C5: a returnItem request on an existing Borrow that is RETURNED or LATE is
\* rejected and leaves the Borrow rows and the Item statuses as they were;
\* the rejection is the borrow-not-ongoing error whenever the request
\* carries a readable returnDate.
C5_FinishedBorrowRejected ==
    \A req \in ReturnRequests :
        (/\ req.borrowId \in DOMAIN borrows
         /\ borrows[req.borrowId].status \in {"RETURNED", "LATE"})
        => \A after \in {returnItem(req)} :
           /\ after.res.status \in {400, 404}
           /\ after.borrows = borrows
           /\ after.items = items
           /\ GivenDate(req.returnDate)
                => /\ after.res.status = 400
                   /\ after.res.message = "Invalid borrow record or item already returned"

\* a return of a LATE Borrow was refused
C5_Witness ==
    /\ res.op = "return"
    /\ res.message = "Invalid borrow record or item already returned"
    /\ \E i \in DOMAIN borrows : borrows[i].status = "LATE"
    /\ \A i \in DOMAIN borrows : borrows[i].status # "ONGOING"

\* C6: no step removes a Borrow row, and a step changes a Borrow row only by
\* a successful returnItem that takes it from ONGOING to RETURNED or LATE;
\* a row that is RETURNED or LATE never changes again, so each row is
\* changed by at most one returnItem.
C6_BorrowStatusTerminal ==
    [][/\ Len(borrows') >= Len(borrows)
       /\ \A i \in DOMAIN borrows :
            \/ borrows'[i] = borrows[i]
            \/ /\ borrows[i].status = "ONGOING"
               /\ borrows'[i].status \in {"RETURNED", "LATE"}
               /\ res'.op = "return" /\ res'.status = 200]_vars

\* both rows were returned, one late and one in time, and a further return
\* was refused
C6_Witness ==
    /\ Len(borrows) = 2
    /\ borrows[1].status = "LATE"
    /\ borrows[2].status = "RETURNED"
    /\ res.op = "return" /\ res.status = 400

\* the ONGOING Borrow rows of an item
Ongoing(itemId) ==
    {i \in DOMAIN borrows : borrows[i].itemId = itemId /\ borrows[i].status = "ONGOING"}

\* C7: starting without Borrow rows, after any sequence of borrow and
\* returnItem requests every item has at most one ONGOING Borrow.
C7_OneOngoingPerItem ==
    \A itemId \in DOMAIN items : Cardinality(Ongoing(itemId)) <= 1

\* an item was borrowed, returned and borrowed again
C7_Witness ==
    /\ Len(borrows) = 2
    /\ borrows[1].itemId = borrows[2].itemId
    /\ borrows[1].status = "RETURNED"
    /\ borrows[2].status = "ONGOING"

\* C8: a borrow request with its required fields whose returnDate is given
\* and earlier than its borrowDate, and a returnItem request on an ONGOING
\* Borrow whose returnDate is earlier than the borrowDate of the row, are
\* rejected with the date-order error and change nothing in the store.
C8_DateOrderRejected ==
    /\ \A req \in BorrowRequests :
          (/\ req.userId # 0 /\ req.itemId # 0
           /\ GivenDate(req.borrowDate) /\ GivenDate(req.returnDate)
           /\ DateParse(req.returnDate) < DateParse(req.borrowDate))
          => borrowItem(req) = [res |-> Reply("borrow", 400, MsgDateOrder, NoData),
                                items |-> items, borrows |-> borrows]
    /\ \A req \in ReturnRequests :
          (/\ req.borrowId \in DOMAIN borrows
           /\ borrows[req.borrowId].status = "ONGOING"
           /\ GivenDate(req.returnDate)
           /\ DateParse(req.returnDate) < borrows[req.borrowId].borrowDate)
          => returnItem(req) = [res |-> Reply("return", 400, MsgDateOrder, NoData),
                                items |-> items, borrows |-> borrows]

\* a return dated before the borrowDate of an ONGOING row was refused
C8_Witness ==
    /\ res = Reply("return", 400, MsgDateOrder, NoData)
    /\ \E i \in DOMAIN borrows :
          /\ borrows[i].status = "ONGOING"
          /\ borrows[i].borrowDate = DateParse(DateOnly(2))

(***************************************************************************)
(* Properties of the lateness rule, under SpecLate.                        *)
(***************************************************************************)
\* the request is a returnItem on an ONGOING Borrow with borrowDate <= returnDate
ReturnsOngoing(req) ==
    /\ req.borrowId \in DOMAIN borrows
    /\ borrows[req.borrowId].status = "ONGOING"
    /\ GivenDate(req.returnDate)
    /\ borrows[req.borrowId].borrowDate <= DateParse(req.returnDate)

\* C3: a returnItem on an ONGOING Borrow with borrowDate <= returnDate makes
\* the Borrow LATE iff the supplied returnDate is strictly later than the
\* expected return date and RETURNED otherwise (also when they are equal);
\* the returnDate of the row becomes the supplied date and the item becomes
\* AVAILABLE.
C3_LateIffStrictlyAfterExpected ==
    \A req \in LateReturnRequests :
        ReturnsOngoing(req)
        => LET old == borrows[req.borrowId]
               after == returnItem(req)
               new == after.borrows[req.borrowId]
               supplied == DateParse(req.returnDate)
           IN /\ after.res.status = 200
              /\ new.status = "LATE" <=> supplied > expectedReturnDate(old)
              /\ new.status = "RETURNED" <=> supplied <= expectedReturnDate(old)
              /\ new.returnDate = supplied
              /\ after.items[old.itemId].status = "AVAILABLE"

\* a Borrow was returned exactly on its expected return date
C3_Witness ==
    /\ res.op = "return" /\ res.status = 200
    /\ borrows[1].status = "RETURNED"
    /\ borrows[1].borrowDate = DateParse(DateTime(1, 12))
    /\ borrows[1].returnDate = DateParse(DateTime(8, 12))
    /\ items[1].status = "AVAILABLE"

\* the calendar day of an instant, counted from 2024-01-01
DayOf(t) == t \div 24

C9_BorrowDateBeforeReturnDate ==
    \A i \in DOMAIN borrows :
        borrows[i].returnDate # NULL => borrows[i].borrowDate <= borrows[i].returnDate

\* a row borrowed and returned at the same instant
C9_Witness ==
    \E i \in DOMAIN borrows :
        /\ borrows[i].status = "RETURNED"
        /\ borrows[i].returnDate = borrows[i].borrowDate
        /\ borrows[i].borrowDate = DateParse(DateTime(8, 12))

(***************************************************************************)
(* Properties of the usage report, under SpecReport.                       *)
(***************************************************************************)
\* the Borrow rows whose borrowDate lies in the window of the request
InWindowRows(req) ==
    {i \in DOMAIN borrows :
        /\ borrows[i].borrowDate >= DateParse(req.start_date)
        /\ borrows[i].borrowDate <= DateParse(req.end_date)}

\* the request has a valid window and a valid group_by
ValidUsageRequest(req) ==
    /\ isValidDate(req.start_date) /\ isValidDate(req.end_date)
    /\ DateParse(req.start_date) <= DateParse(req.end_date)
    /\ req.group_by \in {Str("category"), Str("location")}

RECURSIVE SumBorrowed(_)
SumBorrowed(entries) ==
    IF entries = <<>> THEN 0
    ELSE Head(entries).total_borrowed + SumBorrowed(Tail(entries))

\* C10: for every usageReport request with a valid window and group_by the
\* groups partition the in-window Borrow rows: the total_borrowed of all
\* groups add up to the number of in-window rows, each in-window row is
\* counted in exactly the group of its item's category (or location), and
\* in every group total_returned + items_in_use = total_borrowed.
C10_UsageReportPartitions ==
    \A req \in UsageRequests :
        ValidUsageRequest(req)
        => LET reply == usageReport(req)
               groups == reply.data.usage_analysis
               field == req.group_by.text
           IN /\ reply.status = 200
              /\ SumBorrowed(groups) = Cardinality(InWindowRows(req))
              /\ \A i \in InWindowRows(req) :
                    Cardinality({g \in DOMAIN groups :
                        groups[g].group = items[borrows[i].itemId][field]}) = 1
              /\ \A g \in DOMAIN groups :
                    /\ groups[g].total_borrowed =
                          Cardinality({i \in InWindowRows(req) :
                              items[borrows[i].itemId][field] = groups[g].group})
                    /\ groups[g].total_returned + groups[g].items_in_use
                          = groups[g].total_borrowed

\* the in-window Borrow rows of a group whose status is one of `statuses'
GroupRows(req, group, statuses) ==
    {i \in InWindowRows(req) :
        /\ items[borrows[i].itemId][req.group_by.text] = group
        /\ borrows[i].status \in statuses}

\* C11: the returnDate of a Borrow row is unset iff its status is ONGOING,
\* also for rows created with an explicit returnDate; so in every group of a
\* usageReport items_in_use is the number of in-window rows of the group
\* that are ONGOING and total_returned the number that are RETURNED or LATE.
C11_ReturnDateUnsetIffOngoing ==
    /\ \A i \in DOMAIN borrows :
          borrows[i].returnDate = NULL <=> borrows[i].status = "ONGOING"
    /\ \A req \in UsageRequests :
          ValidUsageRequest(req)
          => \A reply \in {usageReport(req)} :
             \A g \in DOMAIN reply.data.usage_analysis :
                LET entry == reply.data.usage_analysis[g] IN
                /\ entry.items_in_use
                      = Cardinality(GroupRows(req, entry.group, {"ONGOING"}))
                /\ entry.total_returned
                      = Cardinality(GroupRows(req, entry.group, {"RETURNED", "LATE"}))

(***************************************************************************)
(* Properties of the synchronisation of Item and Borrow, under SpecSync.   *)
(***************************************************************************)
\* C12: after any sequence of completed borrow and returnItem requests an
\* item is BORROWED iff it has an ONGOING Borrow, and an item without ONGOING
\* Borrow that started AVAILABLE is AVAILABLE: the second item starts
\* AVAILABLE, and an item that is AVAILABLE or BORROWED never leaves these
\* two statuses.
C12_ItemStatusSynchronized ==
    /\ [](\A id \in DOMAIN items :
             items[id].status = "BORROWED" <=> Ongoing(id) # {})
    /\ [](Ongoing(2) = {} => items[2].status = "AVAILABLE")
    /\ [][\A id \in DOMAIN items :
             items[id].status \in {"AVAILABLE", "BORROWED"}
             => items'[id].status \in {"AVAILABLE", "BORROWED"}]_vars

\* one item was borrowed and returned late and is AVAILABLE again, the
\* other is out on an ONGOING Borrow
C12_Witness ==
    /\ Len(borrows) = 2
    /\ borrows[1].status = "LATE"
    /\ items[borrows[1].itemId].status = "AVAILABLE"
    /\ borrows[2].status = "ONGOING"
    /\ borrows[2].itemId # borrows[1].itemId
    /\ items[borrows[2].itemId].status = "BORROWED"

(***************************************************************************)
(* Properties of the order of validation, under Spec.                      *)
(***************************************************************************)
\* the checks of borrow that a request violates, numbered in the order
\* 1 required fields, 2 borrowDate format, 3 returnDate format (if given),
\* 4 borrowDate <= returnDate (if given), 5 user exists, 6 item exists,
\* 7 item AVAILABLE
BorrowViolations(req) ==
    (IF req.userId = 0 \/ req.itemId = 0 \/ req.borrowDate.kind = "absent"
     THEN {1} ELSE {})
    \cup (IF req.borrowDate.kind # "absent" /\ ~GivenDate(req.borrowDate)
          THEN {2} ELSE {})
    \cup (IF req.returnDate.kind # "absent" /\ ~GivenDate(req.returnDate)
          THEN {3} ELSE {})
    \cup (IF /\ GivenDate(req.borrowDate) /\ GivenDate(req.returnDate)
             /\ DateParse(req.borrowDate) > DateParse(req.returnDate)
          THEN {4} ELSE {})
    \cup (IF req.userId # 0 /\ req.userId \notin DOMAIN users THEN {5} ELSE {})
    \cup (IF req.itemId # 0 /\ req.itemId \notin DOMAIN items THEN {6} ELSE {})
    \cup (IF /\ req.itemId \in DOMAIN items
             /\ items[req.itemId].status # "AVAILABLE"
          THEN {7} ELSE {})

\* the rejection of each check of borrow
BorrowRejection ==
    <<Reply("borrow", 400, "User ID, item ID, and borrow date are required", NoData),
      Reply("borrow", 400, "Invalid date format for borrowDate", NoData),
      Reply("borrow", 400, "Invalid date format for returnDate", NoData),
      Reply("borrow", 400, MsgDateOrder, NoData),
      Reply("borrow", 404, "User not found", NoData),
      Reply("borrow", 404, "Item not found", NoData),
      Reply("borrow", 400, "Item not available for borrowing", NoData)>>

\* the least element of a non-empty set of numbers
Earliest(S) == CHOOSE k \in S : \A j \in S : k <= j

\* C13: a borrow request that violates one or several checks is answered
\* with the rejection of the earliest check it violates, in the order
\* required fields, borrowDate format, returnDate format, date order, user
\* exists, item exists, item AVAILABLE, and nothing is written to the store.
C13_BorrowFailsFast ==
    \A req \in BorrowRequests :
        \A violated \in {BorrowViolations(req)} :
           violated # {}
           => \A after \in {borrowItem(req)} :
              /\ after.res = BorrowRejection[Earliest(violated)]
              /\ after.items = items
              /\ after.borrows = borrows

\* the reply to a request that names no user of the store and an item that
\* is BORROWED, with its dates out of order: the date-order rejection
C13_Witness ==
    /\ res = BorrowRejection[4]
    /\ \E req \in BorrowRequests :
          /\ BorrowViolations(req) = {4, 5, 7}
          /\ borrowItem(req).res = res
          /\ items[req.itemId].status = "BORROWED"
          /\ Ongoing(req.itemId) # {}

\* the checks of returnItem that a request violates, numbered in the order
\* 1 required fields, 2 returnDate format, 3 Borrow exists, 4 Borrow is
\* ONGOING, 5 borrowDate <= returnDate
ReturnViolations(req) ==
    (IF req.borrowId = 0 \/ req.returnDate.kind = "absent" THEN {1} ELSE {})
    \cup (IF req.returnDate.kind # "absent" /\ ~GivenDate(req.returnDate)
          THEN {2} ELSE {})
    \cup (IF req.borrowId # 0 /\ req.borrowId \notin DOMAIN borrows
          THEN {3} ELSE {})
    \cup (IF /\ req.borrowId \in DOMAIN borrows
             /\ borrows[req.borrowId].status # "ONGOING"
          THEN {4} ELSE {})
    \cup (IF /\ req.borrowId \in DOMAIN borrows /\ GivenDate(req.returnDate)
             /\ borrows[req.borrowId].borrowDate > DateParse(req.returnDate)
          THEN {5} ELSE {})

\* the rejection of each check of returnItem
ReturnRejection ==
    <<Reply("return", 400, "Borrow ID and return date are required", NoData),
      Reply("return", 400, "Invalid date format for returnDate", NoData),
      Reply("return", 404, "Borrow record not found", NoData),
      Reply("return", 400, "Invalid borrow record or item already returned", NoData),
      Reply("return", 400, MsgDateOrder, NoData)>>

\* C14: a returnItem request that violates one or several checks is
\* answered with the rejection of the earliest check it violates, in the
\* order required fields, returnDate format, Borrow exists, Borrow is
\* ONGOING, borrowDate <= returnDate (a return of a finished Borrow dated
\* before its borrowDate gets the not-ongoing rejection), and nothing is
\* written to the store.
C14_ReturnFailsFast ==
    \A req \in ReturnRequests :
        \A violated \in {ReturnViolations(req)} :
           violated # {}
           => \A after \in {returnItem(req)} :
              /\ after.res = ReturnRejection[Earliest(violated)]
              /\ after.items = items
              /\ after.borrows = borrows

\* the reply to a return of a RETURNED Borrow dated before its borrowDate:
\* the not-ongoing rejection
C14_Witness ==
    /\ res = ReturnRejection[4]
    /\ \E req \in ReturnRequests :
          /\ ReturnViolations(req) = {4, 5}
          /\ returnItem(req).res = res
          /\ borrows[req.borrowId].status = "RETURNED"

(***************************************************************************)
(* Properties of the borrow analysis, under SpecAnalysis.                  *)
(***************************************************************************)
\* the request has two valid calendar dates, the first not after the second
ValidAnalysisRequest(req) ==
    /\ isValidDate(req.start_date) /\ isValidDate(req.end_date)
    /\ DateParse(req.start_date) <= DateParse(req.end_date)

\* the Borrow rows of an item with the given status and borrowDate in the
\* window of the request, bounds included
WindowRows(req, itemId, status) ==
    {i \in DOMAIN borrows :
        /\ borrows[i].itemId = itemId
        /\ borrows[i].status = status
        /\ DateParse(req.start_date) <= borrows[i].borrowDate
        /\ borrows[i].borrowDate <= DateParse(req.end_date)}

\* C15: frequently_borrowed_items of a borrowAnalysis has exactly one entry
\* for each item with a RETURNED Borrow whose borrowDate is in the window,
\* its total_borrowed is the number of these Borrows (ONGOING, LATE and
\* out-of-window Borrows are not counted), the entries are in non-increasing
\* order of total_borrowed, and with no matching Borrow the list is empty
\* and the request succeeds.
C15_FrequentlyBorrowedItems ==
    \A req \in AnalysisWindows :
        ValidAnalysisRequest(req)
        => \A reply \in borrowAnalysis(req) :
           \A list \in {reply.data.frequently_borrowed_items} :
              /\ reply.status = 200
              /\ {list[k].item_id : k \in DOMAIN list}
                    = {id \in DOMAIN items : WindowRows(req, id, "RETURNED") # {}}
              /\ \A j, k \in DOMAIN list : list[j].item_id = list[k].item_id => j = k
              /\ \A k \in DOMAIN list :
                    list[k].total_borrowed
                       = Cardinality(WindowRows(req, list[k].item_id, "RETURNED"))
              /\ \A j, k \in DOMAIN list :
                    j < k => list[j].total_borrowed >= list[k].total_borrowed

\* an analysis listed the item with two RETURNED Borrows before the item
\* with one
C15_Witness ==
    /\ res.op = "borrowAnalysis" /\ res.status = 200
    /\ Len(res.data.frequently_borrowed_items) = 2
    /\ res.data.frequently_borrowed_items[1].total_borrowed = 2
    /\ res.data.frequently_borrowed_items[2].total_borrowed = 1

\* C16: inefficient_items of a borrowAnalysis has exactly one entry for each
\* item with a LATE Borrow in the window, and in every entry total_borrowed
\* and total_late_returns are both the number of in-window LATE Borrows of
\* the item (its RETURNED and ONGOING Borrows are not in total_borrowed).
C16_InefficientItems ==
    \A req \in AnalysisWindows :
        ValidAnalysisRequest(req)
        => \A reply \in borrowAnalysis(req) :
           \A list \in {reply.data.inefficient_items} :
              /\ {list[k].item_id : k \in DOMAIN list}
                    = {id \in DOMAIN items : WindowRows(req, id, "LATE") # {}}
              /\ \A j, k \in DOMAIN list : list[j].item_id = list[k].item_id => j = k
              /\ \A k \in DOMAIN list :
                    /\ list[k].total_late_returns
                          = Cardinality(WindowRows(req, list[k].item_id, "LATE"))
                    /\ list[k].total_borrowed = list[k].total_late_returns

\* an analysis reported total_borrowed 1 for an item with one LATE Borrow
\* and further Borrows, RETURNED and ONGOING
C16_Witness ==
    /\ res.op = "borrowAnalysis" /\ res.status = 200
    /\ Len(res.data.inefficient_items) = 1
    /\ res.data.inefficient_items[1].total_borrowed = 1
    /\ res.data.analysis_period = [start_date |-> DateOnly(1), end_date |-> DateOnly(2)]
    /\ \E i, j \in DOMAIN borrows :
          /\ borrows[i].itemId = res.data.inefficient_items[1].item_id
          /\ borrows[j].itemId = res.data.inefficient_items[1].item_id
          /\ borrows[i].status = "RETURNED"
          /\ borrows[j].status = "ONGOING"

(***************************************************************************)
(* Properties of both reports, under SpecReport.                           *)
(***************************************************************************)
\* start_date and end_date are present, valid calendar dates, and in order
WellFormedWindow(req) ==
    /\ req.start_date.kind = "date" /\ req.start_date.day \in 1..31
    /\ req.end_date.kind = "date" /\ req.end_date.day \in 1..31
    /\ req.start_date.day <= req.end_date.day

\* the reply is a rejection: only a reply "success" carries a report
Rejected(reply) == reply.status = 400 /\ reply.message # "success"

\* C17: borrowAnalysis and usageReport reject, without a report, every
\* request whose start_date or end_date is missing or not a valid calendar
\* date or whose start_date is after its end_date; usageReport also rejects
\* every group_by other than "category" and "location"; a well-formed
\* request that matches no Borrow row succeeds with empty lists.
C17_InvalidReportRequestsRejected ==
    /\ \A req \in AnalysisRequests :
          \A reply \in borrowAnalysis(req) :
             /\ ~WellFormedWindow(req) => Rejected(reply)
             /\ (WellFormedWindow(req) /\ borrowData(req.start_date, req.end_date) = <<>>)
                   => /\ reply.status = 200
                      /\ reply.data.frequently_borrowed_items = <<>>
                      /\ reply.data.inefficient_items = <<>>
    /\ \A req \in UsageRequests :
          \A reply \in {usageReport(req)} :
             /\ ~WellFormedWindow(req) => Rejected(reply)
             /\ req.group_by \notin {Str("category"), Str("location")} => Rejected(reply)
             /\ (/\ WellFormedWindow(req)
                 /\ req.group_by \in {Str("category"), Str("location")}
                 /\ borrowData(req.start_date, req.end_date) = <<>>)
                   => /\ reply.status = 200
                      /\ reply.data.usage_analysis = <<>>

\* C18: a borrowAnalysis or usageReport request, answered with a report or
\* rejected, leaves every User, Item (its status too) and Borrow row as it
\* was.
C18_ReportsReadOnly ==
    [][res'.op \in {"usageReport", "borrowAnalysis"}
       => /\ users' = users
          /\ items' = items
          /\ borrows' = borrows]_vars

\* a borrowAnalysis was answered over a store with a RETURNED Borrow and an
\* ONGOING one whose item is BORROWED
C18_Witness ==
    /\ res.op = "borrowAnalysis" /\ res.status = 200
    /\ Len(borrows) = 2
    /\ borrows[1].status = "RETURNED"
    /\ borrows[2].status = "ONGOING"
    /\ items[borrows[2].itemId].status = "BORROWED"

(***************************************************************************)
(* Properties of requests served at the same time, under SpecRace and      *)
(* SpecReturnRace.                                                         *)
(***************************************************************************)
\* C19: the availability read, the creation of the Borrow row and the
\* update of the item status are separate store calls, and nothing is
\* checked again after the read: whatever other requests did in between, a
\* borrow request that passed the availability check creates its ONGOING
\* row and then sets the item BORROWED and succeeds.  So two borrow
\* requests for one AVAILABLE item that both pass the check both succeed,
\* and the item has two ONGOING Borrows.
C19_BorrowRaceSucceeds ==
    [][\A c \in CallIds :
          /\ (calls[c].pc = "create" /\ calls'[c] # calls[c])
                => /\ calls'[c].pc = "updateItem"
                   /\ Len(borrows') = Len(borrows) + 1
                   /\ borrows'[Len(borrows')].status = "ONGOING"
                   /\ borrows'[Len(borrows')].itemId = calls[c].req.itemId
          /\ (calls[c].pc = "updateItem" /\ calls'[c] # calls[c])
                => /\ calls'[c] = Idle
                   /\ res'.status = 201
                   /\ res'.data = calls[c].borrow
                   /\ items'[calls[c].req.itemId].status = "BORROWED"
                   /\ borrows' = borrows]_vars

\* both requests were answered 201 and the first item has two ONGOING
\* Borrows
C19_Witness ==
    /\ \A c \in CallIds : calls[c] = Idle
    /\ res.op = "borrow" /\ res.status = 201
    /\ Len(borrows) = 2
    /\ Ongoing(1) = {1, 2}
    /\ items[1].status = "BORROWED"

\* the returnItem requests in flight that passed the checks on the Borrow
\* row they read: each of them goes on to write and to reply 200
ReturnsCommitted(borrowId) ==
    {c \in CallIds :
        /\ calls[c].pc \in {"updateBorrow", "updateItem"}
        /\ calls[c].op = "return"
        /\ calls[c].req.borrowId = borrowId}

\* C20: with the store calls of returnItem requests (and of at most one
\* borrow request per item) interleaved in any way, no two returnItem
\* requests on the same Borrow both succeed, a RETURNED or LATE row is never
\* written again, and once no request is in flight no item with an ONGOING
\* Borrow is AVAILABLE.
C20_ReturnsDoNotRace ==
    /\ [](\A i \in DOMAIN borrows : Cardinality(ReturnsCommitted(i)) <= 1)
    /\ [][\A i \in DOMAIN borrows :
             borrows[i].status \in {"RETURNED", "LATE"} => borrows'[i] = borrows[i]]_vars
    /\ []((\A c \in CallIds : calls[c] = Idle)
             => \A id \in DOMAIN items :
                   Ongoing(id) # {} => items[id].status # "AVAILABLE")

(***************************************************************************)
(* Properties of the lifecycle with item maintenance, under                *)
(* SpecMaintenance.                                                        *)
(***************************************************************************)
\* C21: after any sequence of addItem, updateItem, borrow and returnItem
\* requests, each served whole, no item has more than one ONGOING Borrow.
C21_OneOngoingWithMaintenance ==
    \A itemId \in DOMAIN items : Cardinality(Ongoing(itemId)) <= 1

(***************************************************************************)
(* Properties of failing store calls, under SpecFailure.                   *)
(***************************************************************************)
\* C22: a borrow or returnItem request whose item-status update fails
\* after its Borrow row was created or updated ends with 500 and leaves
\* the store as it was before the request (the created row is gone, the
\* updated row is ONGOING again), so that between requests no AVAILABLE
\* item has an ONGOING Borrow and every BORROWED item has one.
C22_FailedWriteAllOrNothing ==
    /\ [][\A c \in CallIds :
             (calls[c].pc = "updateItem" /\ calls'[c] = Idle /\ res'.status = 500)
             => IF calls[c].op = "borrow"
                THEN Len(borrows') < calls[c].borrow.id
                ELSE borrows'[calls[c].req.borrowId].status = "ONGOING"]_vars
    /\ [](Quiescent
            => \A id \in DOMAIN items :
                  /\ items[id].status = "AVAILABLE" => Ongoing(id) = {}
                  /\ items[id].status = "BORROWED" => Ongoing(id) # {})

(***************************************************************************)
(* Frame of the lifecycle, under Spec.                                     *)
(***************************************************************************)
\* the rows of a table other than row k are as they were
OthersUnchanged(before, after, k) ==
    \A i \in DOMAIN before : i # k => after[i] = before[i]

\* C23: a borrow answered with 201 adds one Borrow row and sets the status
\* of the borrowed item; a returnItem answered with 200 sets returnDate and
\* status of its Borrow row and the status of the item of that row.  Every
\* other Borrow row, every other Item row, userId, itemId and borrowDate of
\* the returned row, the quantity (and every field but status) of each item
\* and the users are as they were.
C23_SuccessFrame ==
    [][/\ (res'.op = "borrow" /\ res'.status = 201)
          => /\ users' = users
             /\ Len(borrows') = Len(borrows) + 1
             /\ OthersUnchanged(borrows, borrows', Len(borrows) + 1)
             /\ DOMAIN items' = DOMAIN items
             /\ OthersUnchanged(items, items', borrows'[Len(borrows')].itemId)
             /\ \A id \in DOMAIN items :
                   [items'[id] EXCEPT !.status = items[id].status] = items[id]
       /\ (res'.op = "return" /\ res'.status = 200)
          => /\ users' = users
             /\ DOMAIN borrows' = DOMAIN borrows
             /\ OthersUnchanged(borrows, borrows', res'.data.id)
             /\ [borrows'[res'.data.id] EXCEPT
                    !.returnDate = borrows[res'.data.id].returnDate,
                    !.status = borrows[res'.data.id].status] = borrows[res'.data.id]
             /\ DOMAIN items' = DOMAIN items
             /\ OthersUnchanged(items, items', borrows[res'.data.id].itemId)
             /\ \A id \in DOMAIN items :
                   [items'[id] EXCEPT !.status = items[id].status] = items[id]]_vars

\* the second of two Borrow rows was returned while the first, of the other
\* item, stays ONGOING and its item BORROWED
C23_Witness ==
    /\ res.op = "return" /\ res.status = 200 /\ res.data.id = 2
    /\ Len(borrows) = 2
    /\ borrows[1].status = "ONGOING"
    /\ borrows[1].itemId # borrows[2].itemId
    /\ items[borrows[1].itemId].status = "BORROWED"
    /\ items[borrows[2].itemId].status = "AVAILABLE"
    /\ \A id \in DOMAIN items : items[id].quantity = 1

(***************************************************************************)
(* Properties of the routes, under SpecAuth.                               *)
(***************************************************************************)
\* the roles a route admits
AdmittedRoles(route) ==
    IF route \in {"usageReport", "borrowAnalysis", "register"}
    THEN {"ADMIN"}
    ELSE IF route \in {"addItem", "updateItem"}
    THEN {"ADMIN", "TEACHER"}
    ELSE {"ADMIN", "TEACHER", "STUDENT"}

\* the header carries a token that verifies
CarriesVerifiedToken(authHeader) ==
    Len(authHeader) >= 2 /\ authHeader[2] \in IssuedTokens

\* C24: the handler of a route behind the middleware runs only for a
\* request whose token verifies and whose role the route admits
\* (usage-report, borrow-analysis, register: ADMIN; addItem, updateItem:
\* ADMIN, TEACHER; borrow, return, getItem: ADMIN, TEACHER, STUDENT).  The
\* middleware answers a request without a verified token with 401 and one
\* with a verified token of another role with 403; a step that sends such
\* an answer leaves the store as it was, and the store changes only in a
\* step of a handler that was reached.
C24_HandlersBehindAuthorization ==
    /\ [](\A c \in CallIds :
             calls[c].pc = "handler"
             => /\ calls[c].op \in ProtectedRoutes
                /\ CarriesVerifiedToken(calls[c].req.authorization)
                /\ calls[c].req.authorization[2].role \in AdmittedRoles(calls[c].op)
                /\ calls[c].user.role \in AdmittedRoles(calls[c].op))
    /\ [](\A route \in ProtectedRoutes, authHeader \in AuthHeaders :
             \A verdict \in {authenticateAndAuthorize(routeRoles(route), authHeader)} :
                IF ~CarriesVerifiedToken(authHeader)
                THEN verdict[1] = 401
                ELSE IF authHeader[2].role \notin AdmittedRoles(route)
                THEN verdict[1] = 403
                ELSE verdict[2] = "next")
    /\ [][(res'.status \in {401, 403} /\ res'.op \in ProtectedRoutes)
             => users' = users /\ items' = items /\ borrows' = borrows]_vars
    /\ [][(users' # users \/ items' # items \/ borrows' # borrows)
             => \E c \in CallIds :
                   /\ calls[c].pc = "handler" /\ calls'[c] = Idle
                   /\ res'.op = calls[c].op
                   /\ calls[c].user.role \in AdmittedRoles(calls[c].op)]_vars

\* after the administrator registered a student and added an item, a
\* request of the student to register was answered with 403
C24_Witness ==
    /\ Len(users) = 2 /\ users[2].role = "STUDENT"
    /\ Len(items) = 2
    /\ res.op = "register" /\ res.status = 403
    /\ Quiescent

=============================================================================
